---- MODULE Spec2Model ----
(***************************************************************************)
(* Model of postdeseq2-annotate-and-split.py.                              *)
(*                                                                         *)
(* The script runs three module-level loops over os.listdir('input'), one  *)
(* after the other: the annotated loop, the expression loop and the        *)
(* sigOnly loop.  One action models one iteration (one input file) of one  *)
(* loop, from read_csv to the last to_csv of the loop body.                *)
(*                                                                         *)
(* Text is a sequence of one-character strings, so that re.sub and         *)
(* str.split act on characters.  A float is <<"num", n>>, <<"nan", 0>> or, *)
(* before astype, <<"str", 0>> for a token that is no number.  P-adj is    *)
(* counted in units of 1/1000 and log2FC in units of 1/10.  Of the seven   *)
(* input columns the model keeps 0 (GeneID), 2 (log2FC) and 6 (P-adj), the *)
(* ones the loops compute with.  Every table row carries `line`, the       *)
(* 1-based line of the input file it comes from; no operation reads it.    *)
(*                                                                         *)
(* species is a constant of the script ("A" in the source, "A" or "S" by   *)
(* its comment); a run starts with either value.  An exception in a loop   *)
(* body is caught nowhere, so it ends the run; `error` records it.         *)
(***************************************************************************)
EXTENDS Integers, Sequences, FiniteSets, TLC

VARIABLES species, annotation_file, input, loop, idx, fs, error

vars == <<species, annotation_file, input, loop, idx, fs, error>>

-----------------------------------------------------------------------------
(* Bounds of the model                                                     *)

MaxFiles == 2
MaxRows == 2
MaxAnn == 2
MaxPieces == 3

-----------------------------------------------------------------------------
(* Thresholds of the script, in the model's fixed-point units              *)

padj_005 == 50
padj_001 == 10
log2FC_0 == 0
log2FC_1 == 10
log2FC_minus_1 == -10

-----------------------------------------------------------------------------
(* Values                                                                  *)

\* pandas' missing value (NaN / None) in a text column
NA == <<"<NA>">>

NaN == <<"nan", 0>>

Num(n) == <<"num", n>>

NotANumber == <<"str", 0>>

\* x < c and x > c on floats: every comparison with NaN is False
Lt(x, c) == x[1] = "num" /\ x[2] < c

Gt(x, c) == x[1] = "num" /\ x[2] > c

SetMax(S) == IF S = {} THEN 0 ELSE CHOOSE m \in S : \A x \in S : x <= m

-----------------------------------------------------------------------------
(* Text operations                                                         *)

\* the pattern of df.replace({0: 'gene:'}, {0: ''}, regex=True)
gene_prefix == <<"g", "e", "n", "e", ":">>

MatchAt(s, i) ==
    /\ i + Len(gene_prefix) - 1 <= Len(s)
    /\ SubSeq(s, i, i + Len(gene_prefix) - 1) = gene_prefix

\* re.sub('gene:', '', s): one left-to-right pass over non-overlapping matches
RECURSIVE ReSubFrom(_, _)
ReSubFrom(s, i) ==
    IF i > Len(s) THEN <<>>
    ELSE IF MatchAt(s, i) THEN ReSubFrom(s, i + Len(gene_prefix))
    ELSE <<s[i]>> \o ReSubFrom(s, i + 1)

\* the replace of column 0, on one cell (a missing cell is left alone)
replace_gene(s) == IF s = NA THEN NA ELSE ReSubFrom(s, 1)

\* "x".split("."): every '.' separates
RECURSIVE split_dot(_)
split_dot(s) ==
    IF \E i \in 1..Len(s) : s[i] = "."
    THEN LET i == CHOOSE k \in 1..Len(s) :
                     s[k] = "." /\ \A j \in 1..(k - 1) : s[j] # "."
         IN <<SubSeq(s, 1, i - 1)>> \o split_dot(SubSeq(s, i + 1, Len(s)))
    ELSE <<s>>

\* to_csv writes a missing cell as the empty field; read_csv reads the empty
\* field back as missing
to_csv_cell(x) == IF x = NA THEN <<>> ELSE x

read_csv_cell(t) == IF t = <<>> THEN NA ELSE t

-----------------------------------------------------------------------------
(* File names and output paths                                             *)

\* the category short names used in output file names
lista == << "padj_low_005",
            "log2FC_high_0_padj_low_005",
            "log2FC_low_0_and_padj_low005",
            "padj_low_001",
            "log2FC_high_1_and_padj_low_001",
            "log2FC_low_minus_1_and_padj_low_001",
            "log2FC_higher_1_or_log2FC_low_minus_1_and_padj_001" >>

Categories == 1..Len(lista)

\* file_name.split(".") ; the loops use element [0] of it
file_nam_without_ext(file_name) == split_dot(file_name)

\* f"output/annotated/{file_name}"
AnnotatedTmpPath(file_name) == <<"output/annotated/", file_name, "">>

\* f"output/annotated/annotated_{file_name}"
AnnotatedPath(file_name) == <<"output/annotated/annotated_", file_name, "">>

\* f"output/expression/expression_{file_nam_without_ext[0]}_{lista[k]}.tab"
ExpressionPath(file_name, k) ==
    <<"output/expression/expression_", file_nam_without_ext(file_name)[1], lista[k]>>

\* f"output/{file_name}"
SigTmpPath(file_name) == <<"output/", file_name, "">>

\* f"output/sigOnly/sig_{file_nam_without_ext[0]}_{lista[k]}.tab"
SigPath(file_name, k) ==
    <<"output/sigOnly/sig_", file_nam_without_ext(file_name)[1], lista[k]>>

-----------------------------------------------------------------------------
(* Loading an input file                                                   *)

\* pd.read_csv(f"input/{file_name}", header=None, sep=r'\s+')
read_csv(rows) ==
    [i \in 1..Len(rows) |->
        [c0 |-> rows[i].gene, c2 |-> rows[i].log2FC, c6 |-> rows[i].padj, line |-> i]]

\* dfs.iloc[1:, :]
iloc_from_1(df) == SubSeq(df, 2, Len(df))

\* the sigOnly loop drops the first line before astype
sig_drop_header(df) == iloc_from_1(df)

\* df.astype({2: 'float', 6: 'float'}) raises ValueError on a cell that is no number
astype_raises(df) ==
    \E i \in 1..Len(df) : df[i].c2 = NotANumber \/ df[i].c6 = NotANumber

\* df.replace({0: 'gene:'}, {0: ''}, regex=True)
replace_col0(df) ==
    [i \in 1..Len(df) |-> [df[i] EXCEPT !.c0 = replace_gene(df[i].c0)]]

\* df[7].str.split(".", expand=True): one column per part of the longest split
split_expand(df) == [i \in 1..Len(df) |-> split_dot(df[i].c0)]

split_width(df) == SetMax({Len(split_expand(df)[i]) : i \in 1..Len(df)})

\* df[[7, 8]] = <frame>: ValueError "Columns must be same length as key"
\* unless the frame has exactly two columns
split_raises(df) == split_width(df) # 2

\* columns 7 and 8 after the species branch
locus_columns(df, sp) ==
    [i \in 1..Len(df) |->
        LET parts == split_expand(df)[i]
        IN IF sp = "S"
           THEN [c7 |-> parts[1], c8 |-> IF Len(parts) >= 2 THEN parts[2] ELSE NA]
           ELSE [c7 |-> df[i].c0, c8 |-> df[i].c0]]

-----------------------------------------------------------------------------
(* Category functions of the annotated loop: the GeneID or ""              *)

padj_low_005(row) ==
    IF Lt(row.c6, padj_005) THEN row.c0 ELSE <<>>

\* the second category function with log2FC >= 0 in place of log2FC > 0
log2FC_high_0_padj_low_005_inclusive(row) ==
    IF Lt(row.c6, padj_005) /\ ~Lt(row.c2, log2FC_0) THEN row.c0 ELSE <<>>

log2FC_high_0_padj_low_005(row) ==
    IF Lt(row.c6, padj_005) /\ Gt(row.c2, log2FC_0) THEN row.c0 ELSE <<>>

log2FC_low_0_and_padj_low005(row) ==
    IF Lt(row.c6, padj_005) /\ Lt(row.c2, log2FC_0) THEN row.c0 ELSE <<>>

padj_low_001(row) ==
    IF Lt(row.c6, padj_001) THEN row.c0 ELSE <<>>

log2FC_high_1_and_padj_low_001(row) ==
    IF Lt(row.c6, padj_001) /\ Gt(row.c2, log2FC_1) THEN row.c0 ELSE <<>>

log2FC_low_minus_1_and_padj_low_001(row) ==
    IF Lt(row.c6, padj_001) /\ Lt(row.c2, log2FC_minus_1) THEN row.c0 ELSE <<>>

log2FC_higher_1_or_log2FC_low_minus_1_and_padj_001(row) ==
    IF Lt(row.c6, padj_001) /\ (Lt(row.c2, log2FC_minus_1) \/ Gt(row.c2, log2FC_1))
    THEN row.c0 ELSE <<>>

\* df[9] .. df[15] = df.apply(<category function>, axis=1)
apply_categories(row) ==
    << padj_low_005(row),
       log2FC_high_0_padj_low_005(row),
       log2FC_low_0_and_padj_low005(row),
       padj_low_001(row),
       log2FC_high_1_and_padj_low_001(row),
       log2FC_low_minus_1_and_padj_low_001(row),
       log2FC_higher_1_or_log2FC_low_minus_1_and_padj_001(row) >>

-----------------------------------------------------------------------------
(* Category functions of the expression loop: "True" or "False"            *)

\* the first b_ function with <= in place of <
b_padj_low_005_inclusive(row) ==
    IF row.c6[1] = "num" /\ row.c6[2] <= padj_005 THEN "True" ELSE "False"

b_padj_low_005(row) ==
    IF Lt(row.c6, padj_005) THEN "True" ELSE "False"

b_log2FC_high_0_padj_low_005(row) ==
    IF Lt(row.c6, padj_005) /\ Gt(row.c2, log2FC_0) THEN "True" ELSE "False"

b_log2FC_low_0_and_padj_low005(row) ==
    IF Lt(row.c6, padj_005) /\ Lt(row.c2, log2FC_0) THEN "True" ELSE "False"

b_padj_low_001(row) ==
    IF Lt(row.c6, padj_001) THEN "True" ELSE "False"

b_log2FC_high_1_and_padj_low_001(row) ==
    IF Lt(row.c6, padj_001) /\ Gt(row.c2, log2FC_1) THEN "True" ELSE "False"

b_log2FC_low_minus_1_and_padj_low_001(row) ==
    IF Lt(row.c6, padj_001) /\ Lt(row.c2, log2FC_minus_1) THEN "True" ELSE "False"

b_log2FC_higher_1_or_log2FC_low_minus_1_and_padj_001(row) ==
    IF Lt(row.c6, padj_001) /\ (Lt(row.c2, log2FC_minus_1) \/ Gt(row.c2, log2FC_1))
    THEN "True" ELSE "False"

\* df2[9] .. df8[9] = df.apply(<b_ function>, axis=1), by category number
apply_b(k, row) ==
    CASE k = 1 -> b_padj_low_005(row)
      [] k = 2 -> b_log2FC_high_0_padj_low_005(row)
      [] k = 3 -> b_log2FC_low_0_and_padj_low005(row)
      [] k = 4 -> b_padj_low_001(row)
      [] k = 5 -> b_log2FC_high_1_and_padj_low_001(row)
      [] k = 6 -> b_log2FC_low_minus_1_and_padj_low_001(row)
      [] k = 7 -> b_log2FC_higher_1_or_log2FC_low_minus_1_and_padj_001(row)

-----------------------------------------------------------------------------
(* Row filters of the sigOnly loop, on the reloaded table                  *)

\* dfs[<mask>] for df2 .. df8, by category number
sig_mask(k, row) ==
    CASE k = 1 -> Lt(row.Padj, padj_005)
      [] k = 2 -> Lt(row.Padj, padj_005) /\ Gt(row.log2FC, log2FC_0)
      [] k = 3 -> Lt(row.Padj, padj_005) /\ Lt(row.log2FC, log2FC_0)
      [] k = 4 -> Lt(row.Padj, padj_001)
      [] k = 5 -> Lt(row.Padj, padj_001) /\ Gt(row.log2FC, log2FC_1)
      [] k = 6 -> Lt(row.Padj, padj_001) /\ Lt(row.log2FC, log2FC_minus_1)
      [] k = 7 -> Lt(row.Padj, padj_001)
                  /\ (Gt(row.log2FC, log2FC_1) \/ Lt(row.log2FC, log2FC_minus_1))

-----------------------------------------------------------------------------
(* The annotation join                                                     *)

\* the rows of annotation_file whose key column equals `key`, in table order
annotation_matches(key) == SelectSeq(annotation_file, LAMBDA a : a.key = key)

\* pd.merge(df, annotation_file, on=<on>, how='left'), for one left row:
\* one output row per matching annotation row, or one row of missing
\* annotation cells when none matches
merge_row(row, on) ==
    LET m == annotation_matches(row[on])
    IN IF m = <<>>
       THEN << [f \in DOMAIN row \cup {"ann"} |-> IF f = "ann" THEN NA ELSE row[f]] >>
       ELSE [j \in 1..Len(m) |->
                [f \in DOMAIN row \cup {"ann"} |-> IF f = "ann" THEN m[j].desc ELSE row[f]]]

RECURSIVE merge_from(_, _, _)
merge_from(df, i, on) ==
    IF i > Len(df) THEN <<>>
    ELSE merge_row(df[i], on) \o merge_from(df, i + 1, on)

\* the species branch of the merge: on 'locus' for "S", on GeneID for "A"
merge_left(df, sp) == merge_from(df, 1, IF sp = "S" THEN "locus" ELSE "GeneID")

\* DataFrame.drop(<columns>, axis=1)
drop_columns(df, cols) ==
    [i \in 1..Len(df) |-> [f \in DOMAIN df[i] \ cols |-> df[i][f]]]

-----------------------------------------------------------------------------
(* Body of the annotated loop (one input file)                             *)

\* the exception the body raises before its first to_csv, or "none"
annotated_raises(rows, sp) ==
    IF astype_raises(read_csv(rows)) THEN "ValueError: astype"
    ELSE IF sp = "S" /\ split_raises(replace_col0(read_csv(rows)))
    THEN "ValueError: split"
    ELSE "none"

\* df with columns 0..15, as written to output/annotated/{file_name}
annotated_tmp_table(rows, sp) ==
    LET df == replace_col0(read_csv(rows))
        lc == locus_columns(df, sp)
    IN [i \in 1..Len(df) |->
           [GeneID |-> to_csv_cell(df[i].c0),
            log2FC |-> df[i].c2,
            Padj   |-> df[i].c6,
            loc    |-> to_csv_cell(lc[i].c7),
            Last   |-> to_csv_cell(lc[i].c8),
            cats   |-> [k \in Categories |-> to_csv_cell(apply_categories(df[i])[k])],
            line   |-> df[i].line]]

\* pd.read_csv of the intermediate file, then df['locus'] = df['loc']
annotated_reload(tmp) ==
    [i \in 1..Len(tmp) |->
        [GeneID |-> read_csv_cell(tmp[i].GeneID),
         log2FC |-> tmp[i].log2FC,
         Padj   |-> tmp[i].Padj,
         loc    |-> read_csv_cell(tmp[i].loc),
         Last   |-> read_csv_cell(tmp[i].Last),
         cats   |-> [k \in Categories |-> read_csv_cell(tmp[i].cats[k])],
         locus  |-> read_csv_cell(tmp[i].loc),
         line   |-> tmp[i].line]]

\* inner_join.to_csv: every text cell through to_csv
annotated_to_csv(df) ==
    [i \in 1..Len(df) |->
        [f \in DOMAIN df[i] |->
            IF f \in {"log2FC", "Padj", "line"} THEN df[i][f]
            ELSE IF f = "cats" THEN [k \in Categories |-> to_csv_cell(df[i].cats[k])]
            ELSE to_csv_cell(df[i][f])]]

\* output/annotated/annotated_{file_name}
annotated_table(rows, sp) ==
    LET df == annotated_reload(annotated_tmp_table(rows, sp))
        inner_join == IF sp = "S"
                      THEN drop_columns(merge_left(df, sp), {"Last", "loc"})
                      ELSE merge_left(df, sp)
    IN annotated_to_csv(inner_join)

\* the files one iteration of the annotated loop writes
annotated_writes(file, sp) ==
    (AnnotatedTmpPath(file.name) :> annotated_tmp_table(file.rows, sp))
    @@ (AnnotatedPath(file.name) :> annotated_table(file.rows, sp))

-----------------------------------------------------------------------------
(* Body of the expression loop (one input file)                            *)

expression_raises(rows) ==
    IF astype_raises(read_csv(rows)) THEN "ValueError: astype" ELSE "none"

\* df2 .. df8: GeneID and Expression, the other columns dropped
expression_table(rows, k) ==
    LET df == replace_col0(read_csv(rows))
    IN [i \in 1..Len(df) |->
           [GeneID     |-> to_csv_cell(df[i].c0),
            Expression |-> apply_b(k, df[i]),
            line       |-> df[i].line]]

expression_writes(file) ==
    [p \in {ExpressionPath(file.name, k) : k \in Categories} |->
        LET k == CHOOSE c \in Categories : ExpressionPath(file.name, c) = p
        IN expression_table(file.rows, k)]

-----------------------------------------------------------------------------
(* Body of the sigOnly loop (one input file)                               *)

sig_raises(rows, sp) ==
    IF astype_raises(sig_drop_header(read_csv(rows))) THEN "ValueError: astype"
    ELSE IF sp = "S" /\ split_raises(replace_col0(sig_drop_header(read_csv(rows))))
    THEN "ValueError: split"
    ELSE "none"

\* the sigOnly table without the replace of column 0
sig_tmp_table_no_replace(rows, sp) ==
    LET dfs == sig_drop_header(read_csv(rows))
        lc  == locus_columns(dfs, sp)
    IN [i \in 1..Len(dfs) |->
           [GeneID |-> to_csv_cell(dfs[i].c0),
            log2FC |-> dfs[i].c2,
            Padj   |-> dfs[i].c6,
            locus  |-> to_csv_cell(lc[i].c7),
            line   |-> dfs[i].line]]

\* dfs with columns 0..7, as written to output/{file_name}
sig_tmp_table(rows, sp) ==
    LET dfs == replace_col0(sig_drop_header(read_csv(rows)))
        lc  == locus_columns(dfs, sp)
    IN [i \in 1..Len(dfs) |->
           [GeneID |-> to_csv_cell(dfs[i].c0),
            log2FC |-> dfs[i].c2,
            Padj   |-> dfs[i].c6,
            locus  |-> to_csv_cell(lc[i].c7),
            line   |-> dfs[i].line]]

\* pd.read_csv of the intermediate file
sig_reload(tmp) ==
    [i \in 1..Len(tmp) |->
        [GeneID |-> read_csv_cell(tmp[i].GeneID),
         log2FC |-> tmp[i].log2FC,
         Padj   |-> tmp[i].Padj,
         locus  |-> read_csv_cell(tmp[i].locus),
         line   |-> tmp[i].line]]

sig_to_csv(df) ==
    [i \in 1..Len(df) |->
        [f \in DOMAIN df[i] |->
            IF f \in {"log2FC", "Padj", "line"} THEN df[i][f]
            ELSE to_csv_cell(df[i][f])]]

\* dfs after the merge
sig_joined(rows, sp) == merge_left(sig_reload(sig_tmp_table(rows, sp)), sp)

\* df2 .. df8 as written to output/sigOnly/
sig_table(rows, sp, k) ==
    sig_to_csv(SelectSeq(sig_joined(rows, sp), LAMBDA r : sig_mask(k, r)))

sig_writes(file, sp) ==
    (SigTmpPath(file.name) :> sig_tmp_table(file.rows, sp))
    @@ [p \in {SigPath(file.name, k) : k \in Categories} |->
           LET k == CHOOSE c \in Categories : SigPath(file.name, c) = p
           IN sig_table(file.rows, sp, k)]

-----------------------------------------------------------------------------
(* Control flow                                                            *)

NoError == [kind |-> "none", loop |-> "none", idx |-> 0]

\* one loop over the input files with the three bodies inside it
next_iteration_file_by_file(lp, i, n) ==
    IF lp = "annotated" THEN <<"expression", i>>
    ELSE IF lp = "expression" THEN <<"sigOnly", i>>
    ELSE IF i < n THEN <<"annotated", i + 1>>
    ELSE <<"done", n>>

\* the three for-loops over os.listdir('input'), one after the other:
\* the next position after iteration i of loop lp over n files
next_iteration(lp, i, n) ==
    IF i < n THEN <<lp, i + 1>>
    ELSE IF lp = "annotated" THEN <<"expression", 1>>
    ELSE IF lp = "expression" THEN <<"sigOnly", 1>>
    ELSE <<"done", n>>

\* a handler that skips the failing file and goes on with the next
on_exception_continue(lp, i, n) ==
    IF i < n THEN <<lp, i + 1>>
    ELSE IF lp = "annotated" THEN <<"expression", 1>>
    ELSE IF lp = "expression" THEN <<"sigOnly", 1>>
    ELSE <<"done", n>>

\* an exception in a loop body is caught nowhere: the script ends
on_exception(lp, i, n) == <<"aborted", i>>

annotated_loop ==
    /\ loop = "annotated"
    /\ LET e == annotated_raises(input[idx].rows, species)
       IN IF e # "none"
          THEN /\ error' = [kind |-> e, loop |-> loop, idx |-> idx]
               /\ loop' = on_exception(loop, idx, Len(input))[1]
               /\ idx' = on_exception(loop, idx, Len(input))[2]
               /\ UNCHANGED fs
          ELSE /\ fs' = annotated_writes(input[idx], species) @@ fs
               /\ loop' = next_iteration(loop, idx, Len(input))[1]
               /\ idx' = next_iteration(loop, idx, Len(input))[2]
               /\ UNCHANGED error
    /\ UNCHANGED <<species, annotation_file, input>>

expression_loop ==
    /\ loop = "expression"
    /\ LET e == expression_raises(input[idx].rows)
       IN IF e # "none"
          THEN /\ error' = [kind |-> e, loop |-> loop, idx |-> idx]
               /\ loop' = on_exception(loop, idx, Len(input))[1]
               /\ idx' = on_exception(loop, idx, Len(input))[2]
               /\ UNCHANGED fs
          ELSE /\ fs' = expression_writes(input[idx]) @@ fs
               /\ loop' = next_iteration(loop, idx, Len(input))[1]
               /\ idx' = next_iteration(loop, idx, Len(input))[2]
               /\ UNCHANGED error
    /\ UNCHANGED <<species, annotation_file, input>>

sigOnly_loop ==
    /\ loop = "sigOnly"
    /\ LET e == sig_raises(input[idx].rows, species)
       IN IF e # "none"
          THEN /\ error' = [kind |-> e, loop |-> loop, idx |-> idx]
               /\ loop' = on_exception(loop, idx, Len(input))[1]
               /\ idx' = on_exception(loop, idx, Len(input))[2]
               /\ UNCHANGED fs
          ELSE /\ fs' = sig_writes(input[idx], species) @@ fs
               /\ loop' = next_iteration(loop, idx, Len(input))[1]
               /\ idx' = next_iteration(loop, idx, Len(input))[2]
               /\ UNCHANGED error
    /\ UNCHANGED <<species, annotation_file, input>>

Next == annotated_loop \/ expression_loop \/ sigOnly_loop

-----------------------------------------------------------------------------
(* Inputs                                                                  *)

Seqs(S, lo, hi) == UNION {[1..n -> S] : n \in lo..hi}

\* sequences of n distinct elements of S: a directory listing
Distinct(S, n) == {l \in [1..n -> S] : \A i, j \in 1..n : l[i] = l[j] => i = j}

\* input directories of 1..hi files named from `names`, in listing order
Listings(names, contents, hi) ==
    UNION {{[i \in 1..n |-> [name |-> ns[i], rows |-> cs[i]]] :
                ns \in Distinct(names, n), cs \in [1..n -> contents]} : n \in 1..hi}

EmptyDir == [p \in {} |-> <<>>]

InitWith(Sp, Anns, Ls) ==
    /\ species \in Sp
    /\ annotation_file \in Anns
    /\ input \in Ls
    /\ loop = "annotated"
    /\ idx = 1
    /\ fs = EmptyDir
    /\ error = NoError

s_tab == <<"s", ".", "t", "a", "b">>
s_txt == <<"s", ".", "t", "x", "t">>
t_tab == <<"t", ".", "t", "a", "b">>

FileNames == {s_tab, s_txt, t_tab}

Row(g, l, p) == [gene |-> g, log2FC |-> l, padj |-> p]

id_gene_S_1 == gene_prefix \o <<"S", ".", "1">>
id_S == <<"S">>
id_T_1_2 == <<"T", ".", "1", ".", "2">>
id_gene == gene_prefix

AnnRow(k, d) == [key |-> k, desc |-> d]

\* annotation rows: two rows share the key "S", one is keyed "S.1"
AnnRows == {AnnRow(<<"S">>, <<"a">>), AnnRow(<<"S">>, <<"b">>),
            AnnRow(<<"S", ".", "1">>, <<"c">>)}

OneAnn == <<AnnRow(<<"S">>, <<"a">>), AnnRow(<<"S", ".", "1">>, <<"c">>)>>

\* several input files: a significant gene, and a line that is no number
FlowRows == {Row(id_gene_S_1, Num(20), Num(1)),
             Row(id_gene_S_1, NotANumber, NotANumber)}

Init == InitWith({"A", "S"}, {OneAnn},
                 Listings(FileNames, Seqs(FlowRows, 1, MaxRows), MaxFiles))

Spec == Init /\ [][Next]_vars

\* one input file, identifiers of every shape, every annotation table
JoinRows == {Row(g, Num(20), Num(1)) : g \in {id_gene_S_1, id_S, id_T_1_2, id_gene}}
            \cup {Row(id_S, Num(0), Num(70))}

InitJoin == InitWith({"A", "S"}, Seqs(AnnRows, 0, MaxAnn),
                     Listings({s_tab}, Seqs(JoinRows, 1, MaxRows), 1))

SpecJoin == InitJoin /\ [][Next]_vars

\* one input file, every combination of log2FC and P-adj around the thresholds
Log2FCValues == {Num(-20), Num(-10), Num(0), Num(10), Num(20)}

PadjValues == {Num(1), Num(10), Num(50), Num(70), NaN}

GridRows == {Row(id_gene_S_1, l, p) : l \in Log2FCValues, p \in PadjValues}
            \cup {Row(id_gene_S_1, NaN, NaN)}
            \cup {Row(id_gene, Num(20), Num(1)), Row(id_gene, Num(0), Num(70))}

InitGrid == InitWith({"A", "S"}, {OneAnn},
                     Listings({s_tab}, Seqs(GridRows, 1, MaxRows), 1))

SpecGrid == InitGrid /\ [][Next]_vars

\* one input file of one line, identifiers put together from pieces
Pieces == {<<"g", "e">>, gene_prefix, <<"n", "e", ":">>, <<"S">>, <<".">>, <<"1">>}

RECURSIVE Concat(_)
Concat(ps) == IF ps = <<>> THEN <<>> ELSE Head(ps) \o Concat(Tail(ps))

Identifiers == {Concat(ps) : ps \in Seqs(Pieces, 1, MaxPieces)}

InitNorm == InitWith({"A", "S"}, {OneAnn},
                     Listings({s_tab}, {<<Row(g, Num(20), Num(1))>> : g \in Identifiers}, 1))

SpecNorm == InitNorm /\ [][Next]_vars

-----------------------------------------------------------------------------
(* Vocabulary of the properties                                            *)

Files == 1..Len(input)

RowsOf(t) == {t[i] : i \in 1..Len(t)}

Written(p) == p \in DOMAIN fs

\* the predicate table of the seven categories, on (log2FC, P-adj)
TablePredicate(k, l, p) ==
    CASE k = 1 -> Lt(p, 50)
      [] k = 2 -> Lt(p, 50) /\ Gt(l, 0)
      [] k = 3 -> Lt(p, 50) /\ Lt(l, 0)
      [] k = 4 -> Lt(p, 10)
      [] k = 5 -> Lt(p, 10) /\ Gt(l, 10)
      [] k = 6 -> Lt(p, 10) /\ Lt(l, -10)
      [] k = 7 -> Lt(p, 10) /\ (Gt(l, 10) \/ Lt(l, -10))

\* the lines of input file f for which category k's predicate holds
Significant(f, k) ==
    {i \in 1..Len(input[f].rows) :
        TablePredicate(k, input[f].rows[i].log2FC, input[f].rows[i].padj)}

LoopNames == {"annotated", "expression", "sigOnly"}

LoopOrder(lp) ==
    CASE lp = "annotated" -> 1 [] lp = "expression" -> 2
      [] lp = "sigOnly" -> 3 [] OTHER -> 4

\* the paths one iteration of loop lp writes for an input file
LoopPaths(lp, name) ==
    CASE lp = "annotated" -> {AnnotatedTmpPath(name), AnnotatedPath(name)}
      [] lp = "expression" -> {ExpressionPath(name, k) : k \in Categories}
      [] lp = "sigOnly" -> {SigTmpPath(name)} \cup {SigPath(name, k) : k \in Categories}

\* the paths written by the iterations that come before iteration i of loop lp
\* when the three loops run one after the other
PathsBefore(lp, i) ==
    UNION {LoopPaths(q, input[f].name) :
              <<q, f>> \in {x \in LoopNames \X Files :
                               \/ LoopOrder(x[1]) < LoopOrder(lp)
                               \/ x[1] = lp /\ x[2] < i}}

\* the annotated, expression and sigOnly files of an input file
FinalPaths(name) ==
    {AnnotatedPath(name)}
    \cup {ExpressionPath(name, k) : k \in Categories}
    \cup {SigPath(name, k) : k \in Categories}

\* no loop body raises on this file
WellFormed(f) ==
    /\ annotated_raises(input[f].rows, species) = "none"
    /\ expression_raises(input[f].rows) = "none"
    /\ sig_raises(input[f].rows, species) = "none"

Halted == loop \in {"done", "aborted"}

-----------------------------------------------------------------------------
(* C1                                                                      *)

\* C1: in the annotated table every category cell is the gene's identifier
\* exactly when the table predicate of that category holds of the line's
\* (log2FC, P-adj), and is empty otherwise; in the expression table of a
\* category the flag is "True" exactly when that predicate holds.  The
\* comparisons are strict: the inputs include P-adj 0.05 and 0.01 and
\* log2FC 0, 1 and -1 exactly.
C1_CategoriesFollowTable ==
    \A f \in Files : \A k \in Categories :
        /\ Written(AnnotatedPath(input[f].name)) =>
              \A r \in RowsOf(fs[AnnotatedPath(input[f].name)]) :
                  r.cats[k] = IF r.line \in Significant(f, k) THEN r.GeneID ELSE <<>>
        /\ Written(ExpressionPath(input[f].name, k)) =>
              \A r \in RowsOf(fs[ExpressionPath(input[f].name, k)]) :
                  (r.Expression = "True") <=> (r.line \in Significant(f, k))

\* a finished run on a line with log2FC exactly 1 and P-adj 0.001 followed by
\* a line with P-adj exactly 0.05: the first is in 1, 2 and 4 and not in 5 or
\* 7, the second in no category
C1_Witness ==
    /\ loop = "done"
    /\ Len(input[1].rows) = 2
    /\ input[1].rows[1].log2FC = Num(10) /\ input[1].rows[1].padj = Num(1)
    /\ input[1].rows[2].log2FC = Num(20) /\ input[1].rows[2].padj = Num(50)
    /\ fs[ExpressionPath(input[1].name, 1)][1].Expression = "True"
    /\ fs[ExpressionPath(input[1].name, 5)][1].Expression = "False"
    /\ fs[ExpressionPath(input[1].name, 1)][2].Expression = "False"
    /\ \E r \in RowsOf(fs[AnnotatedPath(input[1].name)]) :
           r.line = 1 /\ r.cats[4] = r.GeneID /\ r.cats[7] = <<>> /\ r.GeneID # <<>>

-----------------------------------------------------------------------------
(* C2                                                                      *)

\* C2: at the end of a run, for every input file and every category, the
\* lines in the sigOnly file are exactly the lines of the input file for
\* which the category's predicate holds, and these are the lines the
\* expression file marks "True" and the lines with a non-empty category
\* identifier in the annotated table.
C2_ViewsAgree ==
    loop = "done" =>
        \A f \in Files : \A k \in Categories :
            LET name == input[f].name
                sig  == {r.line : r \in RowsOf(fs[SigPath(name, k)])}
                expr == {r.line : r \in {x \in RowsOf(fs[ExpressionPath(name, k)]) :
                                            x.Expression = "True"}}
                ann  == {r.line : r \in {x \in RowsOf(fs[AnnotatedPath(name)]) :
                                            x.cats[k] # <<>>}}
            IN /\ sig = Significant(f, k)
               /\ sig = expr
               /\ sig = ann

-----------------------------------------------------------------------------
(* C3                                                                      *)

\* C3: in both modes and for every annotation table, once a loop that joins
\* has handled an input file, every line of the file has exactly one joined
\* row: in the annotated table, and in the joined table of the sigOnly loop.
C3_JoinComplete ==
    \A f \in Files :
        LET name == input[f].name
            rows == input[f].rows
        IN /\ Written(AnnotatedPath(name)) =>
                 \A i \in 1..Len(rows) :
                     Cardinality({j \in 1..Len(fs[AnnotatedPath(name)]) :
                                     fs[AnnotatedPath(name)][j].line = i}) = 1
           /\ Written(SigTmpPath(name)) =>
                 \A i \in 1..Len(rows) :
                     Cardinality({j \in 1..Len(sig_joined(rows, species)) :
                                     sig_joined(rows, species)[j].line = i}) = 1

-----------------------------------------------------------------------------
(* C4                                                                      *)

-----------------------------------------------------------------------------
(* C5                                                                      *)

-----------------------------------------------------------------------------
(* C6                                                                      *)

\* C6 as stated: when the run has ended, every input file on which no loop
\* body raises has its annotated, expression and sigOnly files, whatever
\* happened to the other input files.
C6_OtherFilesGetOutputs ==
    Halted => \A f \in Files : WellFormed(f) => FinalPaths(input[f].name) \subseteq DOMAIN fs

\* C6 amended: an error raised in a loop body ends the whole run there: the
\* files on disk are those written by the iterations before the failing one,
\* and nothing else; the input files after the failing one get nothing from
\* that loop, and no input file gets anything from the later loops.
C6_ErrorEndsRun ==
    error.kind # "none" =>
        /\ loop = "aborted"
        /\ DOMAIN fs = PathsBefore(error.loop, error.idx)

\* the sigOnly loop raised on the first of two input files, and the second,
\* on which nothing raises, has no sigOnly file
C6_Witness ==
    /\ error.kind # "none"
    /\ error.loop = "sigOnly"
    /\ error.idx = 1
    /\ Len(input) = 2
    /\ WellFormed(2)
    /\ Written(AnnotatedPath(input[2].name))
    /\ ~Written(SigPath(input[2].name, 1))

-----------------------------------------------------------------------------
(* C7                                                                      *)

\* C7: a finished run over two input files leaves, for each input file, its
\* 1 annotated, 7 expression and 7 sigOnly files: 15 files each, 30 in all.
C7_FifteenFilesEach ==
    (loop = "done" /\ Len(input) = 2) =>
        /\ \A f \in Files :
              /\ FinalPaths(input[f].name) \subseteq DOMAIN fs
              /\ Cardinality(FinalPaths(input[f].name)) = 15
        /\ Cardinality(UNION {FinalPaths(input[f].name) : f \in Files}) = 15 * 2

-----------------------------------------------------------------------------
(* C8                                                                      *)

HasDot(s) == \E i \in 1..Len(s) : s[i] = "."

FirstDot(s) == CHOOSE k \in 1..Len(s) : s[k] = "." /\ \A j \in 1..(k - 1) : s[j] # "."

\* C8: under "S", in the annotated loop, an input file whose clean
\* identifiers all contain a '.' raises no identifier error, and each line
\* written has the text before the first '.' as loc and the rest as Last;
\* an input file with a clean identifier without '.' is not written.
C8_SplitOnFirstDot ==
    species = "S" =>
        \A f \in Files :
            LET name  == input[f].name
                rows  == input[f].rows
                clean == [i \in 1..Len(rows) |-> replace_gene(rows[i].gene)]
            IN /\ (error.loop = "annotated" /\ error.idx = f
                   /\ error.kind = "ValueError: split") =>
                      \E i \in 1..Len(rows) : ~HasDot(clean[i])
               /\ Written(AnnotatedTmpPath(name)) =>
                      \A r \in RowsOf(fs[AnnotatedTmpPath(name)]) :
                          /\ HasDot(clean[r.line])
                          /\ r.loc = SubSeq(clean[r.line], 1, FirstDot(clean[r.line]) - 1)
                          /\ r.Last = SubSeq(clean[r.line], FirstDot(clean[r.line]) + 1,
                                             Len(clean[r.line]))

-----------------------------------------------------------------------------
(* C9                                                                      *)

\* C9 as stated: whenever any output of an input file is on disk, all
\* outputs of every input file listed before it are on disk.
C9_FileByFile ==
    \A f, g \in Files :
        (f < g /\ \E lp \in LoopNames : LoopPaths(lp, input[g].name) \cap DOMAIN fs # {}) =>
            \A lp \in LoopNames : LoopPaths(lp, input[f].name) \subseteq DOMAIN fs

\* C9 amended: the three loops run one after the other, each over all input
\* files one at a time: as long as nothing has raised, the files on disk are
\* the outputs of every earlier loop for all input files and the outputs of
\* the current loop for the input files listed before the current one.
C9_LoopByLoop ==
    error.kind = "none" => DOMAIN fs = PathsBefore(loop, idx)

\* the expression loop is at the second of two input files: both annotated
\* tables and the first file's expression tables are written, no sigOnly file
C9_Witness ==
    /\ error.kind = "none"
    /\ loop = "expression"
    /\ idx = 2
    /\ Len(input) = 2
    /\ Written(AnnotatedPath(input[2].name))
    /\ Written(ExpressionPath(input[1].name, 7))
    /\ ~Written(ExpressionPath(input[2].name, 7))
    /\ ~Written(SigPath(input[1].name, 1))

-----------------------------------------------------------------------------
(* C10                                                                     *)

\* C10: under "A", the clean-up of an identifier the annotated loop has
\* cleaned and written leaves it unchanged.
C10_CleanupIdempotent ==
    species = "A" =>
        \A f \in Files :
            Written(AnnotatedTmpPath(input[f].name)) =>
                \A r \in RowsOf(fs[AnnotatedTmpPath(input[f].name)]) :
                    replace_gene(r.GeneID) = r.GeneID

-----------------------------------------------------------------------------
(* C11                                                                     *)

\* the identifier without one leading "gene:", or unchanged when it does not
\* start with "gene:"
StripLeadingPrefixOnce(s) ==
    IF Len(s) >= Len(gene_prefix) /\ SubSeq(s, 1, Len(gene_prefix)) = gene_prefix
    THEN SubSeq(s, Len(gene_prefix) + 1, Len(s))
    ELSE s

\* C11: the GeneID every loop writes for a line is the line's identifier with
\* "gene:" removed once when it starts with it, and the identifier unchanged
\* when it does not start with "gene:", also when "gene:" occurs inside it.
C11_PrefixOnlyOnce ==
    \A f \in Files :
        LET name == input[f].name
            rows == input[f].rows
        IN \A p \in {AnnotatedTmpPath(name), SigTmpPath(name)}
                    \cup {ExpressionPath(name, k) : k \in Categories} :
               Written(p) =>
                   \A r \in RowsOf(fs[p]) :
                       r.GeneID = StripLeadingPrefixOnce(rows[r.line].gene)

=============================================================================
